---- MODULE Spec2Model ----
(***************************************************************************)
(* Model of setup.py, the interactive Splunk Universal Forwarder Docker    *)
(* instance generator: the prerequisite check, the preference file, the    *)
(* four-state prompt sequence, the sanitizer, the file writer, the         *)
(* .gitignore update and the two docker invocations of main().             *)
(*                                                                         *)
(* Python strings the code inspects character by character (instance       *)
(* names, hosts, ports) are sequences of one-character strings; paths and  *)
(* messages the code only passes around are TLA+ strings.                  *)
(***************************************************************************)
EXTENDS Integers, Sequences, FiniteSets, TLC

\* ------------------------------------------------------------------ bounds
\* Longest string handed to the sanitizer in SpecSanitize.
MaxLen == 3
\* Number of consecutive runs of the program in SpecRuns.
MaxRuns == 2

\* --------------------------------------------------------------- constants
DEFAULT_SPLUNK_PORT == <<"9", "9", "9", "7">>
MaxPort == 65535
MinPort == 1

\* ------------------------------------------------------------ string tools
\* All sequences over S of length at most n.
SeqsUpTo(S, n) == UNION {[1..k -> S] : k \in 0..n}

\* Characters str.strip() and the regular expression \s treat as whitespace.
Whitespace == {" ", "\t"}

RECURSIVE LStrip(_, _)
LStrip(s, drop) ==
    IF s # <<>> /\ Head(s) \in drop THEN LStrip(Tail(s), drop) ELSE s

RECURSIVE RStrip(_, _)
RStrip(s, drop) ==
    IF s # <<>> /\ s[Len(s)] \in drop
    THEN RStrip(SubSeq(s, 1, Len(s) - 1), drop) ELSE s

\* str.strip(chars): drops leading and trailing characters of the set.
StripChars(s, drop) == RStrip(LStrip(s, drop), drop)

\* str.strip(): drops leading and trailing whitespace.
Strip(s) == StripChars(s, Whitespace)

\* c in s
Contains(s, c) == \E i \in 1..Len(s) : s[i] = c

\* ---------------------------------------------------------------- sanitizer
LowerOf(c) == IF c = "A" THEN "a" ELSE c

\* name.lower()
Lower(s) == [i \in 1..Len(s) |-> LowerOf(s[i])]

\* re.sub(r'\s+', '_', name): every maximal run of whitespace becomes one '_'.
RECURSIVE CollapseWhitespace(_)
CollapseWhitespace(s) ==
    IF s = <<>> THEN <<>>
    ELSE IF Head(s) \in Whitespace
         THEN <<"_">> \o CollapseWhitespace(LStrip(s, Whitespace))
         ELSE <<Head(s)>> \o CollapseWhitespace(Tail(s))

\* The characters the class [a-z0-9_-] matches, within the alphabets used here.
SafeChars == {"a", "b", "d", "e", "f", "j", "l", "o", "p", "r", "t", "u",
              "0", "1", "_", "-"}

\* re.sub(r'[^a-z0-9_-]', '', name)
KeepSafe(s) == SelectSeq(s, LAMBDA c : c \in SafeChars)

Proj == <<"p", "r", "o", "j">>
DefaultProj == <<"d", "e", "f", "a", "u", "l", "t", "_", "p", "r", "o", "j">>

\* The sanitizer with the character filter of line 131 left out.
SanitizeNoFilter(name) ==
    LET n2 == CollapseWhitespace(Lower(name))
        n4 == StripChars(n2, {"_", "-"})
        n5 == IF n4 = <<>> \/ Head(n4) \in {"-", "_"} THEN Proj \o n4 ELSE n4
    IN  IF n5 # <<>> THEN n5 ELSE DefaultProj

sanitize_for_docker(name) ==
    LET n1 == Lower(name)
        n2 == CollapseWhitespace(n1)
        n3 == KeepSafe(n2)
        n4 == StripChars(n3, {"_", "-"})
        n5 == IF n4 = <<>> \/ Head(n4) \in {"-", "_"} THEN Proj \o n4 ELSE n4
    IN  IF n5 # <<>> THEN n5 ELSE DefaultProj

\* ------------------------------------------------------------- dictionaries
\* A Python dict with string keys: a function whose domain is the key set.
EmptyDict == [k \in {} |-> <<>>]
DictGet(d, k, default) == IF k \in DOMAIN d THEN d[k] ELSE default
DictSet(d, k, v) == [x \in (DOMAIN d) \cup {k} |-> IF x = k THEN v ELSE d[x]]

\* `a or b` on strings: a unless it is empty.
OrElse(a, b) == IF a # <<>> THEN a ELSE b

\* ------------------------------------------------------------------- state
VARIABLES
    pc,                     \* where main() stands
    exit_status,            \* -1 while running, else the process exit status
    printed,                \* what the latest step printed
    prompts,                \* the wizard prompts shown so far in this run
    invoked,                \* the external build/up commands started in this run
    setup_config,           \* main's setup_config dict
    parent_dir,             \* main's parent_dir (<<>> is None)
    project_name_sanitized, \* main's project_name_sanitized (<<>> is None)
    indexer_ip,             \* main's indexer_ip
    indexer_port,           \* main's indexer_port
    written,                \* how many of the instance files write_file has written
    outputs_conf,           \* content written to config/outputs.conf in this run
    prefs_saved,            \* how often save_setup_config ran in this run
    prefsFile,              \* setup_config.json beside the script
    gitignore,              \* the root .gitignore
    dirs,                   \* the directories that exist (parents and instances)
    runs,                   \* runs of the program started so far
    last_cmd,               \* the answer to the latest subprocess.run of this run
    answer,                 \* the latest line input() returned
    made,                   \* the directories this run created
    sanIn, sanOut, sanCount \* SpecSanitize: input, latest output, applications

proc == <<pc, exit_status, printed, prompts, invoked, setup_config, parent_dir,
          project_name_sanitized, indexer_ip, indexer_port, written,
          outputs_conf, prefs_saved, last_cmd, answer, made>>
disk == <<prefsFile, gitignore, dirs>>
san  == <<sanIn, sanOut, sanCount>>
vars == <<proc, disk, runs, san>>

\* --------------------------------------------------------- external commands
\* What the operating system answers to one subprocess.run: the command is
\* missing, or it ran and left an exit code and some stderr lines. A stderr
\* line is "benign" when it contains one of the benign_patterns, else "other".
StderrLines == {"benign", "other"}
CmdResult(found, code, stderr) ==
    [found |-> found, code |-> code, stderr |-> stderr, none |-> FALSE]

\* No command has run yet.
NoCmd == [found |-> TRUE, code |-> 0, stderr |-> <<>>, none |-> TRUE]

\* The stderr text as a whole contains one of the benign patterns.
IsBenign(stderr) == \E i \in 1..Len(stderr) : stderr[i] = "benign"

\* run_command: what it returns, whether it ends the process, what it prints.
run_command(res, check) ==
    IF ~res.found
    THEN [ret |-> FALSE, exits |-> TRUE, msgs |-> {<<"Error: Command not found">>}]
    ELSE IF check /\ res.code # 0
    THEN [ret |-> FALSE, exits |-> TRUE,
          msgs |-> {<<"Command failed with exit code. Exiting.">>}]
    ELSE [ret |-> res.code = 0, exits |-> FALSE,
          msgs |-> IF res.stderr # <<>> /\ ~IsBenign(res.stderr)
                   THEN {<<"Error Output:", res.stderr>>} ELSE {}]

\* sys.exit(code), also the end of main() (code 0) and an uncaught exception
\* (the interpreter prints the traceback and exits with status 1).
Exit(code, msgs) ==
    /\ pc' = "exited"
    /\ exit_status' = code
    /\ printed' = msgs

\* ------------------------------------------------------------ prerequisites
\* A check that forgets the verdict of 'docker compose version'.
PrerequisitesValidNoCompose(pyOk, docker, daemonOk, composeOk) ==
    pyOk /\ docker /\ daemonOk

\* The flag `valid` of check_prerequisites at line 60.
PrerequisitesValid(pyOk, docker, daemonOk, composeOk) ==
    pyOk /\ docker /\ daemonOk /\ composeOk

check_prerequisites(results) ==
    /\ pc = "prereq"
    /\ \E pyOk \in BOOLEAN, docker \in BOOLEAN :
       \E info1 \in results, info2 \in results, compose \in results :
         LET r1 == run_command(info1, FALSE)
             r2 == run_command(info2, FALSE)
             r3 == run_command(compose, FALSE)
             \* the commands actually run, in order
             retried == docker /\ ~r1.exits /\ ~r1.ret
             ranCompose == docker /\ ~r1.exits /\ (retried => ~r2.exits)
             died == docker /\ (r1.exits \/ (retried /\ r2.exits)
                                \/ (ranCompose /\ r3.exits))
             valid == PrerequisitesValid(pyOk, docker, retried => r2.ret,
                                         ranCompose => r3.ret)
             lastRun == IF ~docker THEN last_cmd
                        ELSE IF ranCompose THEN compose
                        ELSE IF retried THEN info2 ELSE info1
             msgs == (IF pyOk THEN {} ELSE {<<"Error: Python 3.7 or higher is required.">>})
                     \cup (IF docker THEN r1.msgs
                           ELSE {<<"Error: 'docker' command not found in PATH.">>})
                     \cup (IF retried THEN {<<"Press Enter after starting Docker">>} \cup r2.msgs
                           ELSE {})
                     \cup (IF retried /\ ~r2.exits /\ ~r2.ret
                           THEN {<<"Error: Docker daemon still not responding. Exiting.">>}
                           ELSE {})
                     \cup (IF ranCompose THEN r3.msgs ELSE {})
                     \cup (IF ranCompose /\ ~r3.exits /\ ~r3.ret
                           THEN {<<"Error: 'docker compose' (V2) command failed.">>}
                           ELSE {})
         IN  /\ last_cmd' = lastRun
             /\ answer' = IF retried THEN <<>> ELSE answer
             /\ IF died \/ ~valid
                THEN Exit(1, msgs \cup (IF died THEN {}
                                        ELSE {<<"Please resolve prerequisite issues and restart.">>}))
                ELSE /\ pc' = "load"
                     /\ printed' = msgs \cup {<<"Prerequisites checked.">>}
                     /\ UNCHANGED exit_status
    /\ UNCHANGED <<prompts, invoked, setup_config, parent_dir,
                   project_name_sanitized, indexer_ip, indexer_port, written,
                   outputs_conf, prefs_saved, made, disk, runs, san>>

\* ---------------------------------------------------------- preference file
PrefsFile(kind, data) == [kind |-> kind, data |-> data]

\* load_setup_config: the value it returns and whether it warns. A file
\* holding valid JSON that is no object comes back as that non-dict value.
load_setup_config(file) ==
    CASE file.kind = "absent"     -> [value |-> "dict", data |-> EmptyDict, warned |-> FALSE]
      [] file.kind = "unreadable" -> [value |-> "dict", data |-> EmptyDict, warned |-> TRUE]
      [] file.kind = "badjson"    -> [value |-> "dict", data |-> EmptyDict, warned |-> TRUE]
      [] file.kind = "nonobject"  -> [value |-> "list", data |-> EmptyDict, warned |-> FALSE]
      [] OTHER                    -> [value |-> "dict", data |-> file.data, warned |-> FALSE]

\* Lines 160-163 of main: the load and the three .get reads. A list has no
\* .get: AttributeError, uncaught.
LoadPreferences ==
    /\ pc = "load"
    /\ LET r == load_setup_config(prefsFile)
           warning == IF r.warned THEN {<<"Warning: Could not parse. Using defaults.">>}
                      ELSE {}
       IN  IF r.value # "dict"
           THEN /\ Exit(1, warning \cup {<<"Traceback: AttributeError">>})
                /\ UNCHANGED setup_config
           ELSE /\ setup_config' = r.data
                /\ pc' = "parent"
                /\ printed' = warning \cup {<<"--- Instance Configuration ---">>}
                /\ UNCHANGED exit_status
    /\ UNCHANGED <<prompts, invoked, parent_dir, project_name_sanitized,
                   indexer_ip, indexer_port, written, outputs_conf, prefs_saved,
                   last_cmd, answer, made, disk, runs, san>>

\* --------------------------------------------------------------- write_file
\* write_file either writes the file or prints the error and exits with 1.
WriteFailed(path) == {<<"Error writing file", path>>}

\* --------------------------------------------------------- 1. parent directory
\* One round of the loop of lines 192-204. mkdirOk: Path.resolve and mkdir
\* succeed; probe: how the write-then-delete probe of line 200 ends.
ProbeOutcomes == {"ok", "write fails", "unlink fails"}

AskParentDirectory(typedSet) ==
    /\ pc = "parent"
    /\ prompts' = prompts \cup {"parent"}
    /\ \E typed \in typedSet, mkdirOk \in BOOLEAN, probe \in ProbeOutcomes :
         LET default_parent_dir == DictGet(setup_config, "default_parent_directory", <<>>)
             parent_dir_str == OrElse(Strip(typed), default_parent_dir)
         IN  /\ answer' = typed
             /\ IF parent_dir_str = <<>>
                THEN /\ printed' = {<<"Parent directory path cannot be empty.">>}
                     /\ UNCHANGED <<pc, exit_status, parent_dir, setup_config, dirs, made>>
                ELSE IF ~mkdirOk
                THEN /\ printed' = {<<"Error with directory. Check path/permissions.">>}
                     /\ UNCHANGED <<pc, exit_status, parent_dir, setup_config, dirs, made>>
                ELSE /\ dirs' = dirs \cup {<<parent_dir_str>>}
                     /\ made' = made \cup ({<<parent_dir_str>>} \ dirs)
                     /\ CASE probe = "write fails" ->
                               \* write_file calls sys.exit(1); SystemExit is no
                               \* Exception, so line 204 does not catch it
                               /\ Exit(1, WriteFailed(".permission_test"))
                               /\ parent_dir' = parent_dir_str
                               /\ UNCHANGED setup_config
                          [] probe = "unlink fails" ->
                               /\ printed' = {<<"Error with directory. Check path/permissions.">>}
                               /\ parent_dir' = <<>>
                               /\ UNCHANGED <<pc, exit_status, setup_config>>
                          [] OTHER ->
                               /\ printed' = {<<"Using parent directory">>}
                               /\ parent_dir' = parent_dir_str
                               /\ setup_config' = DictSet(setup_config,
                                      "default_parent_directory", parent_dir_str)
                               /\ pc' = "name"
                               /\ UNCHANGED exit_status
    /\ UNCHANGED <<invoked, project_name_sanitized, indexer_ip, indexer_port,
                   written, outputs_conf, prefs_saved, last_cmd, prefsFile,
                   gitignore, runs, san>>

\* ------------------------------------------------------------ 2. instance name
InstanceDir(parent, name) == <<parent, name>>

\* A name prompt without the instance_dir.exists() test of line 213.
AskInstanceNameNoCheck(typedSet) ==
    /\ pc = "name"
    /\ prompts' = prompts \cup {"name"}
    /\ \E typed \in typedSet :
         /\ answer' = typed
         /\ IF Strip(typed) = <<>>
            THEN /\ printed' = {<<"Project name cannot be empty.">>}
                 /\ UNCHANGED <<pc, project_name_sanitized>>
            ELSE /\ printed' = {<<"Using sanitized project name">>}
                 /\ project_name_sanitized' = sanitize_for_docker(Strip(typed))
                 /\ pc' = "host"
    /\ UNCHANGED <<exit_status, invoked, setup_config, parent_dir, indexer_ip,
                   indexer_port, written, outputs_conf, prefs_saved, last_cmd,
                   made, disk, runs, san>>

\* One round of the loop of lines 208-215.
AskInstanceName(typedSet) ==
    /\ pc = "name"
    /\ prompts' = prompts \cup {"name"}
    /\ \E typed \in typedSet :
         LET project_name_raw == Strip(typed)
             sanitized == sanitize_for_docker(project_name_raw)
         IN  /\ answer' = typed
             /\ IF project_name_raw = <<>>
                THEN /\ printed' = {<<"Project name cannot be empty.">>}
                     /\ UNCHANGED <<pc, project_name_sanitized>>
                ELSE IF InstanceDir(parent_dir, sanitized) \in dirs
                THEN /\ printed' = {<<"Error: Directory already exists. Choose a unique name.">>}
                     /\ project_name_sanitized' = <<>>
                     /\ UNCHANGED pc
                ELSE /\ printed' = {<<"Using sanitized project name">>}
                     /\ project_name_sanitized' = sanitized
                     /\ pc' = "host"
    /\ UNCHANGED <<exit_status, invoked, setup_config, parent_dir, indexer_ip,
                   indexer_port, written, outputs_conf, prefs_saved, last_cmd,
                   made, disk, runs, san>>

\* ------------------------------------------------------------- 3. target host
\* The test of line 225 on a non-empty value.
HostHasInvalidChars(ip) == Contains(ip, " ") \/ Contains(ip, "/")

\* One round of the loop of lines 219-226, and line 227 when it ends.
AskIndexerHost(typedSet) ==
    /\ pc = "host"
    /\ prompts' = prompts \cup {"host"}
    /\ \E typed \in typedSet :
         LET last_ip == DictGet(setup_config, "last_indexer_ip", <<>>)
             ip == OrElse(Strip(typed), last_ip)
             hint == <<"(Hint: Use 'ipconfig'/'ip addr' on VM)">>
         IN  /\ answer' = typed
             /\ IF ip = <<>>
                THEN /\ printed' = {<<"Indexer IP cannot be empty.">>, hint}
                     /\ indexer_ip' = <<>>
                     /\ UNCHANGED <<pc, setup_config>>
                ELSE IF HostHasInvalidChars(ip)
                THEN /\ printed' = {<<"Invalid characters in IP/hostname.">>, hint}
                     /\ indexer_ip' = <<>>
                     /\ UNCHANGED <<pc, setup_config>>
                ELSE /\ printed' = {}
                     /\ indexer_ip' = ip
                     /\ setup_config' = DictSet(setup_config, "last_indexer_ip", ip)
                     /\ pc' = "port"
    /\ UNCHANGED <<exit_status, invoked, parent_dir, project_name_sanitized,
                   indexer_port, written, outputs_conf, prefs_saved, last_cmd,
                   made, disk, runs, san>>

\* ------------------------------------------------------------- 4. target port
Digits == <<"0", "1", "2", "3", "4", "5", "6", "7", "8", "9">>
IsDigit(c) == \E i \in 1..Len(Digits) : Digits[i] = c
DigitValue(c) == (CHOOSE i \in 1..Len(Digits) : Digits[i] = c) - 1

RECURSIVE DecimalValue(_)
DecimalValue(ds) ==
    IF ds = <<>> THEN 0
    ELSE 10 * DecimalValue(SubSeq(ds, 1, Len(ds) - 1)) + DigitValue(ds[Len(ds)])

\* Python's int(str): surrounding whitespace is dropped, one sign is allowed,
\* then decimal digits, where single underscores may stand between digits.
\* ok is FALSE where int() raises ValueError.
PyInt(str) ==
    LET t == Strip(str)
        signed == t # <<>> /\ Head(t) \in {"+", "-"}
        body == IF signed THEN Tail(t) ELSE t
        wellFormed ==
            /\ body # <<>>
            /\ \A i \in 1..Len(body) : IsDigit(body[i]) \/ body[i] = "_"
            /\ IsDigit(body[1]) /\ IsDigit(body[Len(body)])
            /\ \A i \in 1..(Len(body) - 1) : ~(body[i] = "_" /\ body[i + 1] = "_")
        magnitude == DecimalValue(SelectSeq(body, IsDigit))
    IN  IF ~wellFormed THEN [ok |-> FALSE, val |-> 0]
        ELSE [ok |-> TRUE,
              val |-> IF signed /\ Head(t) = "-" THEN 0 - magnitude ELSE magnitude]

\* A port test that lets zero through.
PortInRangeFromZero(port_num) == 0 <= port_num /\ port_num <= MaxPort

\* The range test of line 238.
PortInRange(port_num) == MinPort <= port_num /\ port_num <= MaxPort

\* One round of the loop of lines 231-241, and line 242 when it ends.
AskIndexerPort(typedSet) ==
    /\ pc = "port"
    /\ prompts' = prompts \cup {"port"}
    /\ \E typed \in typedSet :
         LET last_port == DictGet(setup_config, "last_indexer_port", DEFAULT_SPLUNK_PORT)
             indexer_port_input == OrElse(Strip(typed), last_port)
             parsed == PyInt(indexer_port_input)
             hint == <<"(Hint: Check Splunk > Settings > Forwarding & receiving)">>
         IN  /\ answer' = typed
             /\ IF ~parsed.ok
                THEN /\ printed' = {<<"Port must be a number.">>, hint}
                     /\ UNCHANGED <<pc, indexer_port, setup_config>>
                ELSE IF ~PortInRange(parsed.val)
                THEN /\ printed' = {<<"Port must be 1-65535.">>, hint}
                     /\ UNCHANGED <<pc, indexer_port, setup_config>>
                ELSE /\ printed' = {}
                     /\ indexer_port' = indexer_port_input
                     /\ setup_config' = DictSet(setup_config, "last_indexer_port",
                                                indexer_port_input)
                     /\ pc' = "firewall"
    /\ UNCHANGED <<exit_status, invoked, parent_dir, project_name_sanitized,
                   indexer_ip, written, outputs_conf, prefs_saved, last_cmd,
                   made, disk, runs, san>>

\* ------------------------------------------------------------ firewall gate
\* Lines 245-247: the reminder and the input() that acknowledges it.
AcknowledgeFirewall ==
    /\ pc = "firewall"
    /\ pc' = "save"
    /\ printed' = {<<"ACTION REQUIRED: Ensure firewall allows INBOUND TCP">>}
    /\ answer' = <<>>
    /\ UNCHANGED <<exit_status, prompts, invoked, setup_config, parent_dir,
                   project_name_sanitized, indexer_ip, indexer_port, written,
                   outputs_conf, prefs_saved, last_cmd, made, disk, runs, san>>

\* ------------------------------------------------------ save the preferences
\* save_setup_config: open(..., 'w') may fail and leave the file as it was;
\* json.dump may fail after the open truncated the file. Both are IOErrors,
\* answered with a warning.
SaveWarning == <<"Warning: Could not save config">>
SaveOutcomes == {"ok", "open fails", "dump fails"}

\* A save that writes only the parent directory of the mapping.
SaveParentOnly(file, config_data, outcome) ==
    CASE outcome = "ok" ->
            PrefsFile("object",
                      [k \in (DOMAIN config_data) \cap {"default_parent_directory"}
                         |-> config_data[k]])
      [] outcome = "open fails" -> file
      [] OTHER -> PrefsFile("badjson", EmptyDict)

save_setup_config(file, config_data, outcome) ==
    CASE outcome = "ok"         -> PrefsFile("object", config_data)
      [] outcome = "open fails" -> file
      [] OTHER                  -> PrefsFile("badjson", EmptyDict)

SavePreferences ==
    /\ pc = "save"
    /\ \E outcome \in SaveOutcomes :
         /\ prefsFile' = save_setup_config(prefsFile, setup_config, outcome)
         /\ printed' = IF outcome = "ok" THEN {} ELSE {SaveWarning}
    /\ prefs_saved' = prefs_saved + 1
    /\ pc' = "mkdirs"
    /\ UNCHANGED <<exit_status, prompts, invoked, setup_config, parent_dir,
                   project_name_sanitized, indexer_ip, indexer_port, written,
                   outputs_conf, last_cmd, answer, made, gitignore, dirs, runs,
                   san>>

\* ------------------------------------------------------- instance directory
\* Lines 253-257: the two mkdir calls. A failure is an uncaught OSError; the
\* instance directory itself may or may not have been made by then.
MkdirOutcomes == {"ok", "fails before", "fails after"}

CreateInstanceDirs ==
    /\ pc = "mkdirs"
    /\ \E outcome \in MkdirOutcomes :
         /\ dirs' = IF outcome = "fails before" THEN dirs
                    ELSE dirs \cup {InstanceDir(parent_dir, project_name_sanitized)}
         /\ made' = IF outcome = "fails before" THEN made
                    ELSE made \cup ({InstanceDir(parent_dir, project_name_sanitized)}
                                    \ dirs)
         /\ IF outcome = "ok"
            THEN /\ pc' = "write"
                 /\ printed' = {<<"Generating instance files...">>}
                 /\ UNCHANGED exit_status
            ELSE Exit(1, {<<"Traceback: OSError">>})
    /\ UNCHANGED <<prompts, invoked, setup_config, parent_dir,
                   project_name_sanitized, indexer_ip, indexer_port, written,
                   outputs_conf, prefs_saved, last_cmd, answer, prefsFile,
                   gitignore, runs, san>>

\* ----------------------------------------------------------- instance files
\* The files main() writes, in the order it writes them.
InstanceFiles == <<"config/outputs.conf", "config/inputs.conf", "Dockerfile",
                   "docker-compose.yml", ".env", "generate_logs.py",
                   "helpme.md", ".dockerignore">>

\* The server line of outputs.conf: "{indexer_ip}:{indexer_port}".
RenderServer(ip, port) == ip \o <<":">> \o port

\* The next write_file call of lines 276-443.
WriteInstanceFile ==
    /\ pc = "write"
    /\ written < Len(InstanceFiles)
    /\ \E ok \in BOOLEAN :
         IF ok
         THEN /\ written' = written + 1
              /\ outputs_conf' =
                    IF InstanceFiles[written + 1] = "config/outputs.conf"
                    THEN RenderServer(indexer_ip, indexer_port)
                    ELSE outputs_conf
              /\ pc' = IF written + 1 = Len(InstanceFiles) THEN "gitignore" ELSE "write"
              /\ printed' = IF written + 1 = Len(InstanceFiles)
                            THEN {<<"Instance file generation complete.">>} ELSE {}
              /\ UNCHANGED exit_status
         ELSE /\ Exit(1, WriteFailed(InstanceFiles[written + 1]))
              /\ UNCHANGED <<written, outputs_conf>>
    /\ UNCHANGED <<prompts, invoked, setup_config, parent_dir,
                   project_name_sanitized, indexer_ip, indexer_port,
                   prefs_saved, last_cmd, answer, made, disk, runs, san>>

\* --------------------------------------------------------------- .gitignore
\* The file is a text: a sequence of characters, where a literal the code
\* writes in one piece and never inspects counts as one character.
TextFile(exists, text) == [exists |-> exists, text |-> text]

IgnoreEntry(name) == <<"/">> \o name \o <<"/">>
IgnoreComment(name) == <<"# Ignore generated instance '">> \o name \o <<"'">>

\* The lines of a text, split at "\n".
RECURSIVE SplitLines(_)
SplitLines(text) ==
    IF \A i \in 1..Len(text) : text[i] # "\n" THEN <<text>>
    ELSE LET k == CHOOSE i \in 1..Len(text) :
                     text[i] = "\n" /\ \A j \in 1..(i - 1) : text[j] # "\n"
         IN  <<SubSeq(text, 1, k - 1)>> \o SplitLines(SubSeq(text, k + 1, Len(text)))

\* set(line.strip() for line in f if line.strip())
StrippedEntries(text) ==
    {Strip(SplitLines(text)[i]) : i \in 1..Len(SplitLines(text))} \ {<<>>}

\* An update that appends without looking at the entries already there.
AlwaysAppend(file, name) ==
    TextFile(TRUE, file.text \o <<"\n">> \o IgnoreComment(name) \o <<"\n">>
                             \o IgnoreEntry(name) \o <<"\n">>)

\* Lines 455-461 when no IOError occurs.
AppendIfMissing(file, name) ==
    LET entries == IF file.exists THEN StrippedEntries(file.text) ELSE {}
    IN  IF IgnoreEntry(name) \notin entries
        THEN TextFile(TRUE, file.text \o <<"\n">> \o IgnoreComment(name) \o <<"\n">>
                                      \o IgnoreEntry(name) \o <<"\n">>)
        ELSE file

GitignoreOutcomes == {"ok", "read fails", "append fails"}

\* Lines 449-464.
UpdateGitignore ==
    /\ pc = "gitignore"
    /\ \E outcome \in GitignoreOutcomes :
         LET updated == AppendIfMissing(gitignore, project_name_sanitized)
             failed == \/ outcome = "read fails" /\ gitignore.exists
                       \/ outcome = "append fails" /\ updated # gitignore
         IN  /\ gitignore' = IF failed THEN gitignore ELSE updated
             /\ printed' = IF failed
                           THEN {<<"Warning: Could not update root .gitignore">>}
                           ELSE IF updated # gitignore
                           THEN {<<"Adding entry to root .gitignore">>}
                           ELSE {}
    /\ pc' = "build"
    /\ UNCHANGED <<exit_status, prompts, invoked, setup_config, parent_dir,
                   project_name_sanitized, indexer_ip, indexer_port, written,
                   outputs_conf, prefs_saved, last_cmd, answer, made, prefsFile,
                   dirs, runs, san>>

\* ------------------------------------------------------------ docker build/up
BuildHint == <<"Error: Docker build failed. Check Dockerfile and context.">>
UpHints == {<<"Error: Failed to start instance using Docker Compose">>,
            <<"2. Run 'docker compose config' to check syntax.">>,
            <<"3. Run 'docker compose logs -f' to see container errors.">>,
            <<"4. Check Docker daemon status and prerequisites.">>}

\* A build step that starts the command and goes on whatever it answers.
BuildImageUnchecked(results) ==
    /\ pc = "build"
    /\ invoked' = invoked \cup {"build"}
    /\ \E res \in results :
         /\ last_cmd' = res
         /\ pc' = "up"
         /\ printed' = {<<"Docker image build check/run complete.">>}
    /\ UNCHANGED <<exit_status, prompts, setup_config, parent_dir,
                   project_name_sanitized, indexer_ip, indexer_port, written,
                   outputs_conf, prefs_saved, answer, made, disk, runs, san>>

\* Lines 470-474.
BuildImage(results) ==
    /\ pc = "build"
    /\ invoked' = invoked \cup {"build"}
    /\ \E res \in results :
         LET r == run_command(res, TRUE)
         IN  /\ last_cmd' = res
             /\ IF r.exits THEN Exit(1, r.msgs)
                ELSE IF ~r.ret THEN Exit(1, r.msgs \cup {BuildHint})
                ELSE /\ pc' = "up"
                     /\ printed' = r.msgs \cup {<<"Docker image build check/run complete.">>}
                     /\ UNCHANGED exit_status
    /\ UNCHANGED <<prompts, setup_config, parent_dir, project_name_sanitized,
                   indexer_ip, indexer_port, written, outputs_conf, prefs_saved,
                   answer, made, disk, runs, san>>

\* Lines 477-490, and the return of main().
ComposeUp(results) ==
    /\ pc = "up"
    /\ invoked' = invoked \cup {"up"}
    /\ \E res \in results :
         LET r == run_command(res, TRUE)
         IN  /\ last_cmd' = res
             /\ IF r.exits THEN Exit(1, r.msgs)
                ELSE IF ~r.ret THEN Exit(1, r.msgs \cup UpHints)
                ELSE Exit(0, r.msgs \cup {<<"--- Setup Complete ---">>})
    /\ UNCHANGED <<prompts, setup_config, parent_dir, project_name_sanitized,
                   indexer_ip, indexer_port, written, outputs_conf, prefs_saved,
                   answer, made, disk, runs, san>>

\* ------------------------------------------------------------ the next run
\* The operator starts the program again: a fresh process on the same disk.
FreshProcess(p, e, out, shown, cmds, cfg, parent, name, ip, port, w, conf, saves, cmd, line, mk) ==
    /\ p = "prereq" /\ e = -1 /\ out = {} /\ shown = {} /\ cmds = {}
    /\ cfg = EmptyDict /\ parent = <<>> /\ name = <<>> /\ ip = <<>>
    /\ port = <<>> /\ w = 0 /\ conf = <<>> /\ saves = 0
    /\ cmd = NoCmd /\ line = <<>> /\ mk = {}

StartNextRun ==
    /\ pc = "exited"
    /\ runs < MaxRuns
    /\ runs' = runs + 1
    /\ FreshProcess(pc', exit_status', printed', prompts', invoked',
                    setup_config', parent_dir', project_name_sanitized',
                    indexer_ip', indexer_port', written', outputs_conf',
                    prefs_saved', last_cmd', answer', made')
    /\ UNCHANGED <<disk, san>>

\* -------------------------------------------------- what the operator types
\* and what the machine answers; one record per specification.
StderrTexts == {<<>>, <<"other">>, <<"benign">>, <<"benign", "other">>}
CmdResults ==
    {CmdResult(FALSE, 1, <<>>)}
    \cup {CmdResult(TRUE, c, e) : c \in {0, 1}, e \in StderrTexts}

GoodPrefs ==
    [default_parent_directory |-> <<"/p">>,
     last_indexer_ip   |-> <<"h">>,
     last_indexer_port |-> <<"9", "9", "9", "7">>]
\* A file edited by hand: host with a space, port out of range.
OddPrefs ==
    [last_indexer_ip   |-> <<"h", " ", "h">>,
     last_indexer_port |-> <<"9", "9", "9", "9", "9">>]
\* A file edited by hand: host with a tab, port zero.
TabPrefs ==
    [last_indexer_ip   |-> <<"h", "\t", "h">>,
     last_indexer_port |-> <<"0">>]

PrefsFiles ==
    {PrefsFile(k, EmptyDict) : k \in {"absent", "unreadable", "badjson", "nonobject"}}
    \cup {PrefsFile("object", d) : d \in {EmptyDict, GoodPrefs, OddPrefs, TabPrefs}}

HostsTyped ==
    {<<>>, <<"h">>, <<" ", "h">>, <<"h", " ", "h">>, <<"h", "\t", "h">>,
     <<"h", "/", "h">>, <<"/">>}

PortsTyped ==
    {<<>>, <<"a", "b", "c">>, <<"0">>, <<"-", "1">>, <<"1">>,
     <<"9", "9", "9", "7">>, <<"6", "5", "5", "3", "5">>,
     <<"6", "5", "5", "3", "6">>, <<"9", "9", "9", "9", "9">>,
     <<"8", "0", "a">>, <<"+", "8", "0">>, <<"1", "_", "0">>, <<"_", "1">>}

NamesTyped == {<<>>, <<" ">>, <<"A">>, <<"a">>, <<"!">>, <<"a", " ", "!", "b">>}

ParentsTyped == {<<>>, <<"/p">>, <<"/q">>}

Wide == [results |-> CmdResults, parents |-> {<<>>, <<"/p">>},
         names |-> {<<>>, <<"A">>, <<"!">>},
         hosts |-> HostsTyped, ports |-> PortsTyped]

Narrow == [results |-> {CmdResult(TRUE, 0, <<>>), CmdResult(TRUE, 1, <<>>)},
           parents |-> ParentsTyped, names |-> NamesTyped,
           hosts |-> {<<"h">>}, ports |-> {<<>>}]

\* ----------------------------------------------------------- specifications
SanitizerIdle == sanIn = <<>> /\ sanOut = <<>> /\ sanCount = 0

ProcessStarts ==
    FreshProcess(pc, exit_status, printed, prompts, invoked, setup_config,
                 parent_dir, project_name_sanitized, indexer_ip, indexer_port,
                 written, outputs_conf, prefs_saved, last_cmd, answer, made)

\* One run of the program, on any preference file, with an operator who may
\* type anything and a machine on which every call may fail.
Init ==
    /\ ProcessStarts
    /\ runs = 1
    /\ prefsFile \in PrefsFiles
    /\ gitignore \in {TextFile(FALSE, <<>>), TextFile(TRUE, <<"*.log">>)}
    /\ dirs \in {{}, {<< <<"/p">> >>, InstanceDir(<<"/p">>, <<"a">>)}}
    /\ SanitizerIdle

Step(E) ==
    \/ check_prerequisites(E.results)
    \/ LoadPreferences
    \/ AskParentDirectory(E.parents)
    \/ AskInstanceName(E.names)
    \/ AskIndexerHost(E.hosts)
    \/ AskIndexerPort(E.ports)
    \/ AcknowledgeFirewall
    \/ SavePreferences
    \/ CreateInstanceDirs
    \/ WriteInstanceFile
    \/ UpdateGitignore
    \/ BuildImage(E.results)
    \/ ComposeUp(E.results)

Next == Step(Wide)

Spec == Init /\ [][Next]_vars

\* Several runs one after the other on the same disk.
GitignoreTexts ==
    {<<>>, <<"*.log">>, <<"/", "a", "/", "\n">>, <<" ", "/", "a", "/", "\n">>,
     <<"/", "a", "/", "\n", "/", "a", "/">>}

InitRuns ==
    /\ ProcessStarts
    /\ runs = 1
    /\ prefsFile = PrefsFile("absent", EmptyDict)
    /\ gitignore \in {TextFile(FALSE, <<>>)} \cup {TextFile(TRUE, t) : t \in GitignoreTexts}
    /\ dirs = {}
    /\ SanitizerIdle

NextRuns == Step(Narrow) \/ StartNextRun

SpecRuns == InitRuns /\ [][NextRuns]_vars

\* The sanitizer on its own: applied to a string, then to its own output.
SanitizerAlphabet == {"a", "A", "1", "_", "-", " ", "\t", "!"}

InitSanitize ==
    /\ ProcessStarts
    /\ runs = 1
    /\ prefsFile = PrefsFile("absent", EmptyDict)
    /\ gitignore = TextFile(FALSE, <<>>)
    /\ dirs = {}
    /\ sanIn \in SeqsUpTo(SanitizerAlphabet, MaxLen)
    /\ sanOut = <<>>
    /\ sanCount = 0

ApplySanitizer ==
    /\ sanCount = 0
    /\ sanOut' = sanitize_for_docker(sanIn)
    /\ sanCount' = 1
    /\ UNCHANGED <<sanIn, proc, disk, runs>>

ReapplySanitizer ==
    /\ sanCount = 1
    /\ sanIn' = sanOut
    /\ sanOut' = sanitize_for_docker(sanOut)
    /\ sanCount' = 2
    /\ UNCHANGED <<proc, disk, runs>>

NextSanitize == ApplySanitizer \/ ReapplySanitizer

SpecSanitize == InitSanitize /\ [][NextSanitize]_vars

\* ===================================================================== claims
CmdFailed(cmd) == ~cmd.none /\ cmd.found /\ cmd.code # 0
CmdSucceeded(cmd) == ~cmd.none /\ cmd.found /\ cmd.code = 0
ThisInstanceDir == InstanceDir(parent_dir, project_name_sanitized)

\* C1: whenever the build or the up invocation of main() ends with a nonzero
\* exit code, the run ends with status 1 and the hints of that step (the
\* 'Docker build failed' message, or the compose tips) have been printed.
C1_FailedCommandPrintsHints ==
    (pc = "exited" /\ invoked # {} /\ CmdFailed(last_cmd)) =>
        /\ exit_status = 1
        /\ IF "up" \in invoked THEN UpHints \subseteq printed
                               ELSE BuildHint \in printed

\* C2: no round of the parent-directory state ends the process: after empty
\* input, a directory that cannot be made, or a failed probe write, the wizard
\* is still in the parent-directory state.
C2_ParentStateNeverExits ==
    [][pc = "parent" => (pc' \in {"parent", "name"} /\ exit_status' = -1)]_vars

\* C3: whatever the preference file holds, the load and the three reads end in
\* the prompt sequence; an absent file gives the empty mapping, malformed
\* content gives a warning and the empty mapping.
ParseWarning == <<"Warning: Could not parse. Using defaults.">>
C3_LoadNeverFailsTheRun ==
    [][pc = "load" =>
        /\ pc' = "parent" /\ exit_status' = -1
        /\ (prefsFile.kind = "absent" => setup_config' = EmptyDict)
        /\ (prefsFile.kind \in {"badjson", "unreadable"} =>
                setup_config' = EmptyDict /\ ParseWarning \in printed')
        /\ (prefsFile.kind = "object" => setup_config' = prefsFile.data)]_vars

\* C4: build is started only after all eight files were written, up only
\* after build succeeded, status 0 only after up succeeded; a failed write or
\* a failed command ends the run with status 1 and nothing later was started.
C4_PrecedenceChain ==
    /\ ("build" \in invoked) => written = Len(InstanceFiles)
    /\ ("up" \in invoked) => "build" \in invoked
    /\ (pc = "up") => ("build" \in invoked /\ CmdSucceeded(last_cmd))
    /\ (exit_status = 0) =>
          pc = "exited" /\ invoked = {"build", "up"} /\ CmdSucceeded(last_cmd)
    /\ (invoked # {} /\ ~CmdSucceeded(last_cmd)) =>
          (pc = "exited" /\ exit_status = 1)
    /\ \A i \in 1..Len(InstanceFiles) :
          (printed = WriteFailed(InstanceFiles[i])) =>
             pc = "exited" /\ exit_status = 1 /\ written = i - 1 /\ invoked = {}
    /\ Len(InstanceFiles) = 8

C4_Witness ==
    pc = "exited" /\ exit_status = 0 /\ invoked = {"build", "up"}
    /\ written = Len(InstanceFiles)

\* C5: a failed prerequisite check ends the process with status 1 and leaves
\* the preference file, the .gitignore and every directory as they were; no
\* wizard prompt has been shown.
PrerequisiteErrors ==
    {<<"Error: Python 3.7 or higher is required.">>,
     <<"Error: 'docker' command not found in PATH.">>,
     <<"Error: Docker daemon still not responding. Exiting.">>,
     <<"Error: 'docker compose' (V2) command failed.">>}

C5_FailedPrerequisitesTouchNothing ==
    [][pc = "prereq" =>
        /\ (printed' \cap PrerequisiteErrors # {}) => pc' = "exited"
        /\ (pc' # "exited") => (pc' = "load" /\ CmdSucceeded(last_cmd'))
        /\ (pc' = "exited") =>
              /\ exit_status' = 1
              /\ UNCHANGED disk
              /\ prompts' = {} /\ made' = {} /\ prefs_saved' = 0]_vars

C5_Witness ==
    /\ pc = "exited" /\ exit_status = 1 /\ prompts = {}
    /\ <<"Error: 'docker compose' (V2) command failed.">> \in printed

\* C6: the wizard leaves the instance-name state only with a name whose
\* directory is absent, a colliding name is asked again, and in any sequence
\* of runs the instance files are written only into a directory this very
\* run created.
C6_InstanceDirIsFresh ==
    /\ [](/\ (pc \in {"host", "port", "firewall", "save", "mkdirs"}) =>
                ThisInstanceDir \notin dirs
          /\ (pc \in {"write", "gitignore", "build", "up"} \/ written > 0) =>
                ThisInstanceDir \in made)
    /\ [][(/\ pc = "name"
           /\ Strip(answer') # <<>>
           /\ InstanceDir(parent_dir, sanitize_for_docker(Strip(answer'))) \in dirs)
          => (pc' = "name" /\ project_name_sanitized' = <<>>)]_vars

C6_Witness ==
    /\ runs = 2 /\ pc = "name"
    /\ <<"Error: Directory already exists. Choose a unique name.">> \in printed
    /\ InstanceDir(parent_dir, sanitize_for_docker(Strip(answer))) \in dirs

\* C7: the sanitizer's output is never empty, holds only characters of
\* [a-z0-9_-], and sanitizing it again gives it back.
C7_SanitizerTotalIdempotent ==
    /\ (sanCount >= 1) =>
          /\ sanOut # <<>>
          /\ \A i \in 1..Len(sanOut) : sanOut[i] \in SafeChars
    /\ (sanCount = 2) => sanOut = sanIn

C7_Witness == sanCount = 2 /\ sanOut = <<"a", "_", "1">>

\* C8: the host the wizard accepted, typed or taken from the saved default,
\* holds no whitespace character and no '/'.
C8_HostHasNoWhitespaceOrSlash ==
    \A c \in Whitespace \cup {"/"} : ~Contains(indexer_ip, c)

\* C9: the target-port state accepts an input exactly when it parses as an
\* integer in [1,65535], asks again otherwise, and the port kept in the
\* preferences and rendered into outputs.conf is the accepted one.
IsPortNumber(str) ==
    PyInt(str).ok /\ 1 <= PyInt(str).val /\ PyInt(str).val <= 65535

C9_PortAcceptedIffInRange ==
    /\ [](/\ indexer_port # <<>> => IsPortNumber(indexer_port)
          /\ (pc \in {"firewall", "save", "mkdirs", "write", "gitignore", "build", "up"}) =>
                /\ indexer_port # <<>>
                /\ setup_config["last_indexer_port"] = indexer_port
          /\ (outputs_conf # <<>>) =>
                outputs_conf = RenderServer(indexer_ip, indexer_port)
          /\ (pc = "mkdirs" /\ SaveWarning \notin printed) =>
                /\ prefsFile.kind = "object"
                /\ prefsFile.data["last_indexer_port"] = indexer_port)
    /\ [][pc = "port" =>
           LET given == OrElse(Strip(answer'),
                               DictGet(setup_config, "last_indexer_port",
                                       DEFAULT_SPLUNK_PORT))
           IN  /\ (pc' = "firewall") <=> IsPortNumber(given)
               /\ (pc' = "firewall") => indexer_port' = given
               /\ (pc' # "firewall") => (pc' = "port" /\ indexer_port' = <<>>)
               /\ (Strip(answer') \in {<<"a", "b", "c">>, <<"0">>, <<"-", "1">>,
                                       <<"6", "5", "5", "3", "6">>,
                                       <<"9", "9", "9", "9", "9">>}) => pc' = "port"
               /\ (Strip(answer') \in {<<"1">>, <<"9", "9", "9", "7">>,
                                       <<"6", "5", "5", "3", "5">>}) => pc' = "firewall"
         ]_vars

C9_Witness ==
    /\ pc = "port" /\ answer = <<"9", "9", "9", "9", "9">>
    /\ <<"Port must be 1-65535.">> \in printed
    /\ indexer_port = <<>>

\* C10 as claimed: once a run has updated the .gitignore, the file holds the
\* entry line of the run's instance exactly once.
CountLines(text, line) ==
    Cardinality({i \in 1..Len(SplitLines(text)) : SplitLines(text)[i] = line})

IsPrefix(a, b) == Len(a) <= Len(b) /\ SubSeq(b, 1, Len(a)) = a

GitignoreWarning == <<"Warning: Could not update root .gitignore">>

AllPrompts == {"parent", "name", "host", "port"}
FirewallReminder == <<"ACTION REQUIRED: Ensure firewall allows INBOUND TCP">>

C11_PreferencesSavedOnceAtEnd ==
    /\ [](/\ prefs_saved \in {0, 1}
          /\ (prefs_saved = 0) <=>
                (pc \in {"prereq", "load", "parent", "name", "host", "port",
                         "firewall", "save"}
                 \/ (pc = "exited" /\ written = 0 /\ ThisInstanceDir \notin made
                     /\ <<"Traceback: OSError">> \notin printed))
          /\ (pc = "save") =>
                /\ prompts = AllPrompts
                /\ printed = {FirewallReminder}
                /\ parent_dir # <<>> /\ project_name_sanitized # <<>>
                /\ indexer_ip # <<>> /\ indexer_port # <<>>
                /\ ThisInstanceDir \notin dirs
          /\ (ThisInstanceDir \in made) => prefs_saved = 1)
    /\ [][(prefsFile' # prefsFile) =>
            /\ pc = "save" /\ pc' = "mkdirs"
            /\ prefs_saved = 0 /\ prefs_saved' = 1]_vars
    /\ [][(pc = "save" /\ SaveWarning \notin printed') =>
            /\ prefsFile'.kind = "object"
            /\ prefsFile'.data = setup_config
            /\ prefsFile'.data["default_parent_directory"] = parent_dir
            /\ prefsFile'.data["last_indexer_ip"] = indexer_ip
            /\ prefsFile'.data["last_indexer_port"] = indexer_port]_vars

C11_Witness ==
    /\ pc = "mkdirs" /\ prefs_saved = 1 /\ SaveWarning \notin printed
    /\ prefsFile = PrefsFile("object",
           [default_parent_directory |-> <<"/p">>,
            last_indexer_ip   |-> <<"h">>,
            last_indexer_port |-> <<"6", "5", "5", "3", "5">>])
    /\ ThisInstanceDir \notin dirs

\* C12: whenever an external command has run, with check true or false and
\* any exit code, its stderr is displayed if it holds a line without a benign
\* pattern.
HasOtherLine(stderr) == \E i \in 1..Len(stderr) : stderr[i] = "other"

C12_NoRealErrorSwallowed ==
    [][(/\ pc \in {"prereq", "build", "up"}
        /\ ~last_cmd'.none /\ last_cmd'.found
        /\ HasOtherLine(last_cmd'.stderr))
       => <<"Error Output:", last_cmd'.stderr>> \in printed']_vars

====
